---- MODULE Spec2Model ----
(***************************************************************************)
(* Research-paper intake service (src/file.py): PDF upload with text and   *)
(* metadata extraction, keyword search, and LLM-backed summarization and   *)
(* gap analysis over a papers / summaries / gaps store.                    *)
(*                                                                         *)
(* Text (file names, PDF text, titles, keywords) is a sequence of          *)
(* one-character strings, indexed from 0 by the Python operators below.    *)
(* Python's None / SQL NULL is the one-element sequence None, whose        *)
(* element is no character.                                                *)
(***************************************************************************)
EXTENDS Integers, Sequences, FiniteSets, TLC

VARIABLES
    papers,      \* table papers: rows in insertion order
    summaries,   \* table summaries: rows (paper_id, summary)
    gaps,        \* table gaps: rows (paper_id, gaps)
    uploads,     \* files saved under uploads/, in order of saving
    api_key,     \* openai.api_key, read once from the environment
    pc,          \* per request thread: position inside its handler
    local,       \* per request thread: the handler's local variables
    resp,        \* the response sent last, with the request it answers
    llm_calls,   \* number of calls made to the completion service
    doc,         \* ExtractSpec: the PDF handed to extract_content_from_pdf
    extracted    \* ExtractSpec: what extract_content_from_pdf returned

vars == <<papers, summaries, gaps, uploads, api_key, pc, local, resp,
          llm_calls, doc, extracted>>

(***************************************************************************)
(* Bounds of the model.                                                    *)
(***************************************************************************)
MaxWrites == 3       \* requests that write: files saved by /upload, plus
                     \* summarize and gap_analysis requests that find a paper
MaxTextLen == 5      \* ExtractSpec: length of the text after the heading

(***************************************************************************)
(* Python string operations.                                               *)
(***************************************************************************)
None == <<"<None>">>

NL == "\n"

Whitespace == {" ", NL, "\t"}

UpperCase == <<"A","B","C","D","E","F","G","H","I","J","K","L","M",
               "N","O","P","Q","R","S","T","U","V","W","X","Y","Z">>

LowerCase == <<"a","b","c","d","e","f","g","h","i","j","k","l","m",
               "n","o","p","q","r","s","t","u","v","w","x","y","z">>

Min(S) == CHOOSE m \in S : \A n \in S : m <= n

Max(S) == CHOOSE m \in S : \A n \in S : m >= n

\* c.lower() for one character
LowerChar(c) ==
    IF \E i \in 1..26 : UpperCase[i] = c
    THEN LowerCase[CHOOSE i \in 1..26 : UpperCase[i] = c]
    ELSE c

\* s.lower()
Lower(s) == [i \in 1..Len(s) |-> LowerChar(s[i])]

\* s.find(sub, start): lowest 0-based index >= start where sub occurs, else -1
Find(s, sub, start) ==
    LET at == {i \in start..(Len(s) - Len(sub)) :
                  SubSeq(s, i + 1, i + Len(sub)) = sub}
    IN IF at = {} THEN -1 ELSE Min(at)

\* a slice index as Python normalises it: negative counts from the end,
\* and the result is clamped to 0..n
SliceIndex(i, n) ==
    IF i < 0 THEN (IF i + n < 0 THEN 0 ELSE i + n)
    ELSE (IF i > n THEN n ELSE i)

\* s[a:b]
Slice(s, a, b) ==
    LET lo == SliceIndex(a, Len(s))
        hi == SliceIndex(b, Len(s))
    IN IF lo >= hi THEN <<>> ELSE SubSeq(s, lo + 1, hi)

\* s.strip(): s without its leading and trailing whitespace
Strip(s) ==
    LET ink == {i \in 1..Len(s) : s[i] \notin Whitespace}
    IN IF ink = {} THEN <<>> ELSE SubSeq(s, Min(ink), Max(ink))

\* s.endswith(suffix)
EndsWith(s, suffix) ==
    /\ Len(s) >= Len(suffix)
    /\ SubSeq(s, Len(s) - Len(suffix) + 1, Len(s)) = suffix

\* sep.join(parts)
RECURSIVE Join(_, _)
Join(parts, sep) ==
    IF parts = <<>> THEN <<>>
    ELSE IF Len(parts) = 1 THEN parts[1]
    ELSE parts[1] \o sep \o Join(Tail(parts), sep)

\* d.get(key, default) on a dict with string keys
DictGet(d, key, default) == IF key \in DOMAIN d THEN d[key] ELSE default

(***************************************************************************)
(* Literals of the program.                                                *)
(***************************************************************************)
UnknownTitle == <<"U","n","k","n","o","w","n"," ","T","i","t","l","e">>

UnknownAuthors == <<"U","n","k","n","o","w","n"," ","A","u","t","h","o","r","s">>

AbstractWord == <<"a","b","s","t","r","a","c","t">>

BlankLine == <<NL, NL>>

PdfSuffix == <<".","p","d","f">>

(***************************************************************************)
(* extract_content_from_pdf.  A PDF is [valid, metadata, pages]: whether   *)
(* fitz can open it, its metadata dict and the text of each page.          *)
(***************************************************************************)
AbstractOf(content) ==
    LET lower_content == Lower(content)
        abs_start == Find(lower_content, AbstractWord, 0)
    IN IF abs_start # -1
       THEN LET abs_end == Find(lower_content, BlankLine, abs_start + 8)
            IN Strip(Slice(content, abs_start + 8, abs_end))
       ELSE <<>>

extract_content_from_pdf(pdf) ==
    LET content == Join(pdf.pages, <<NL>>)
    IN [title    |-> DictGet(pdf.metadata, "title", UnknownTitle),
        authors  |-> DictGet(pdf.metadata, "author", UnknownAuthors),
        abstract |-> AbstractOf(content),
        content  |-> content]

(***************************************************************************)
(* Requests the model issues.                                              *)
(***************************************************************************)
\* request threads that can be inside summarize_paper or gap_analysis
Workers == {1, 2}

EmptyDict == [k \in {} |-> None]

\* no pages, no metadata: the full text is the empty string
PdfBlank == [valid |-> TRUE, metadata |-> EmptyDict, pages |-> <<>>]

\* metadata fields present but empty; "Abstract\n\nfox.\n\nIn" on one page
PdfHeading ==
    [valid |-> TRUE,
     metadata |-> [title |-> <<>>, author |-> None],
     pages |-> << <<"A","b","s","t","r","a","c","t",NL,NL,
                    "f","o","x",".",NL,NL,"I","n">> >>]

\* metadata Foo / Bar; "abstract" on page one and "ok" on page two
PdfFoo ==
    [valid |-> TRUE,
     metadata |-> [title |-> <<"F","o","o">>, author |-> <<"B","a","r">>],
     pages |-> << AbstractWord, <<"o","k">> >>]

\* a file fitz.open cannot parse
PdfMalformed == [valid |-> FALSE, metadata |-> EmptyDict, pages |-> <<>>]

Pdfs == {PdfBlank, PdfHeading, PdfFoo, PdfMalformed}

PdfNameOk == <<"a",".","p","d","f">>

PdfNameTxt == <<"a",".","t","x","t">>

\* request.files of a POST /upload: has_file is 'file' in request.files
UploadRequests ==
    {[has_file |-> FALSE, filename |-> <<>>, pdf |-> PdfMalformed]}
    \cup [has_file : {TRUE}, filename : {<<>>, PdfNameTxt}, pdf : {PdfFoo}]
    \cup [has_file : {TRUE}, filename : {PdfNameOk}, pdf : Pdfs]

\* the paper_id of a GET /summarize/<paper_id> or /gap_analysis/<paper_id>
PaperIds == {1, 2, 3}

\* the keyword argument of GET /search (absent is the empty string)
Keywords == {<<>>, <<"F","O">>, <<"_">>, <<"%">>}

\* OPENAI_API_KEY unset, or set
ApiKeys == {None, <<"s","k">>}

\* what openai.ChatCompletion.create does with one call
ServiceOutcomes == {[raised |-> FALSE, value |-> "completion text"],
                    [raised |-> TRUE, value |-> "timeout"]}

\* Python truthiness of a string or None
Truthy(v) == v # None /\ v # <<>>

(***************************************************************************)
(* Initial state: init_db() has created the three empty tables.            *)
(***************************************************************************)
NoLocal == [paper_id |-> 0, content |-> <<>>, result |-> ""]

NoResp == [op |-> "none", status |-> 0, req |-> [none |-> TRUE],
           body |-> [none |-> TRUE]]

NotExtracted == [title |-> None, authors |-> None, abstract |-> None,
                 content |-> None]

init_db ==
    /\ papers = <<>>
    /\ summaries = <<>>
    /\ gaps = <<>>

Init ==
    /\ init_db
    /\ uploads = <<>>
    /\ api_key \in ApiKeys
    /\ pc = [w \in Workers |-> "idle"]
    /\ local = [w \in Workers |-> NoLocal]
    /\ resp = NoResp
    /\ llm_calls = 0
    /\ doc = PdfMalformed
    /\ extracted = NotExtracted

\* requests so far that write: files saved, and summarize and gap_analysis
\* requests that found their paper
Writes ==
    Len(uploads) + Len(summaries) + Len(gaps)
    + Cardinality({w \in Workers : pc[w] # "idle"})

(***************************************************************************)
(* POST /upload                                                            *)
(***************************************************************************)
\* werkzeug's secure_filename on names of letters and dots: leading and
\* trailing dots and underscores are stripped
secure_filename(name) ==
    LET keep == {i \in 1..Len(name) : name[i] \notin {".", "_"}}
    IN IF keep = {} THEN <<>> ELSE SubSeq(name, Min(keep), Max(keep))

\* bool(file): a FileStorage is truthy when it has a filename
FileTruthy(filename) == filename # <<>>

\* an id column that is not the table's key: every row gets the same value
NextRowId_NoKey(rows) == 1

\* the rowid SQLite gives the next row of an INTEGER PRIMARY KEY table
NextRowId(rows) ==
    IF rows = <<>> THEN 1 ELSE Max({rows[i].id : i \in 1..Len(rows)}) + 1

\* upload_paper without the check of the file type
UploadError_NoTypeCheck(req) ==
    IF ~req.has_file THEN "No file part"
    ELSE IF req.filename = <<>> THEN "No selected file"
    ELSE ""

\* filename checks of upload_paper: the error of a rejected request, or ""
UploadError(req) ==
    IF ~req.has_file THEN "No file part"
    ELSE IF req.filename = <<>> THEN "No selected file"
    ELSE IF FileTruthy(req.filename) /\ EndsWith(req.filename, PdfSuffix) THEN ""
    ELSE "Invalid file type"

upload_paper(req) ==
    /\ IF UploadError(req) # ""
       THEN /\ resp' = [op |-> "upload", status |-> 400, req |-> req,
                        body |-> [error |-> UploadError(req)]]
            /\ UNCHANGED <<papers, uploads>>
       ELSE /\ Writes < MaxWrites
            \* uuid4 is fresh for every file: the position in uploads
            /\ uploads' = Append(uploads, [uuid |-> Len(uploads) + 1,
                                           name |-> secure_filename(req.filename)])
            /\ IF ~req.pdf.valid
               THEN \* fitz.open raises; nothing catches it
                    /\ resp' = [op |-> "upload", status |-> 500,
                                req |-> req,
                                body |-> [error |-> "Internal Server Error"]]
                    /\ UNCHANGED papers
               ELSE LET e == extract_content_from_pdf(req.pdf)
                        paper_id == NextRowId(papers)
                    IN /\ papers' = Append(papers,
                              [id |-> paper_id, title |-> e.title,
                               authors |-> e.authors, abstract |-> e.abstract,
                               content |-> e.content, filename |-> req.filename])
                       /\ resp' = [op |-> "upload", status |-> 200,
                                   req |-> req,
                                   body |-> [paper_id |-> paper_id,
                                             title |-> e.title,
                                             authors |-> e.authors,
                                             abstract |-> e.abstract,
                                             filename |-> req.filename]]
    /\ UNCHANGED <<summaries, gaps, api_key, pc, local, llm_calls, doc, extracted>>

(***************************************************************************)
(* The two Analyzer functions.  service is what the completion service     *)
(* does if it is called.  The result says whether the function raised,     *)
(* the string it returned (or the error it raised) and whether it called   *)
(* the service.                                                            *)
(***************************************************************************)
SummarizePrompt == "Summarize this research paper content. Extract key findings, main contributions, research methodology, and results in bullet points:\n\n"

GapPrompt == "Identify the research limitations, gaps, potential future work, and unexplored opportunities in the following paper content:\n\n"

NotConfigured == "LLM service not configured."

\* openai.ChatCompletion.create(model, messages, max_tokens) and the read of
\* response.choices[0].message['content']
ChatCompletion(prompt, service) == service

\* llm_summarize without the try / except around the call
llm_summarize_NoCatch(content, service) ==
    LET prompt == <<SummarizePrompt>> \o content
    IN IF ~Truthy(api_key)
       THEN [raised |-> FALSE, value |-> NotConfigured, called |-> FALSE]
       ELSE LET r == ChatCompletion(prompt, service)
            IN [raised |-> r.raised, called |-> TRUE, value |-> r.value]

llm_summarize(content, service) ==
    LET prompt == <<SummarizePrompt>> \o content
    IN IF ~Truthy(api_key)
       THEN [raised |-> FALSE, value |-> NotConfigured, called |-> FALSE]
       ELSE LET r == ChatCompletion(prompt, service)
            IN IF r.raised
               THEN [raised |-> FALSE, called |-> TRUE,
                     value |-> "An error occurred: " \o r.value]
               ELSE [raised |-> FALSE, called |-> TRUE, value |-> r.value]

\* llm_research_gap_analysis without the try / except around the call
llm_research_gap_analysis_NoCatch(content, service) ==
    LET prompt == <<GapPrompt>> \o content
    IN IF ~Truthy(api_key)
       THEN [raised |-> FALSE, value |-> NotConfigured, called |-> FALSE]
       ELSE LET r == ChatCompletion(prompt, service)
            IN [raised |-> r.raised, called |-> TRUE, value |-> r.value]

llm_research_gap_analysis(content, service) ==
    LET prompt == <<GapPrompt>> \o content
    IN IF ~Truthy(api_key)
       THEN [raised |-> FALSE, value |-> NotConfigured, called |-> FALSE]
       ELSE LET r == ChatCompletion(prompt, service)
            IN IF r.raised
               THEN [raised |-> FALSE, called |-> TRUE,
                     value |-> "An error occurred: " \o r.value]
               ELSE [raised |-> FALSE, called |-> TRUE, value |-> r.value]

(***************************************************************************)
(* GET /summarize/<paper_id> and GET /gap_analysis/<paper_id>: a SELECT in *)
(* one transaction, the Analyzer call outside any transaction, an INSERT   *)
(* in a second transaction.  Other requests run between the three steps.   *)
(***************************************************************************)
\* SELECT content FROM papers, the WHERE clause left out
SelectContent_NoWhere(paper_id) ==
    {papers[i].content : i \in 1..Len(papers)}

\* SELECT content FROM papers WHERE id=?, then fetchone(): the rows found
SelectContent(paper_id) ==
    {papers[i].content : i \in {j \in 1..Len(papers) : papers[j].id = paper_id}}

\* the thread that takes the next request: threads are interchangeable, so
\* it is the first idle one
FreeThread(w) == pc[w] = "idle" /\ \A v \in Workers : pc[v] = "idle" => w <= v

NotFound(op, paper_id) ==
    [op |-> op, status |-> 404, req |-> [paper_id |-> paper_id],
     body |-> [error |-> "Paper not found"]]

ServerError(op, paper_id) ==
    [op |-> op, status |-> 500, req |-> [paper_id |-> paper_id],
     body |-> [error |-> "Internal Server Error"]]

summarize_select(w, paper_id) ==
    /\ FreeThread(w)
    /\ LET row == SelectContent(paper_id)
       IN IF row = {}
          THEN /\ resp' = NotFound("summarize", paper_id)
               /\ UNCHANGED <<pc, local>>
          ELSE /\ Writes < MaxWrites
               /\ pc' = [pc EXCEPT ![w] = "summarize_llm"]
               /\ local' = [local EXCEPT ![w] =
                      [paper_id |-> paper_id, content |-> CHOOSE c \in row : TRUE,
                       result |-> ""]]
               /\ UNCHANGED resp
    /\ UNCHANGED <<papers, summaries, gaps, uploads, api_key, llm_calls, doc,
                   extracted>>

summarize_llm(w, service) ==
    /\ pc[w] = "summarize_llm"
    /\ LET r == llm_summarize(local[w].content, service)
       IN /\ llm_calls' = IF r.called THEN llm_calls + 1 ELSE llm_calls
          /\ IF r.raised
             THEN \* the exception leaves the handler
                  /\ resp' = ServerError("summarize", local[w].paper_id)
                  /\ pc' = [pc EXCEPT ![w] = "idle"]
                  /\ local' = [local EXCEPT ![w] = NoLocal]
             ELSE /\ pc' = [pc EXCEPT ![w] = "summarize_insert"]
                  /\ local' = [local EXCEPT ![w].result = r.value]
                  /\ UNCHANGED resp
    /\ UNCHANGED <<papers, summaries, gaps, uploads, api_key, doc, extracted>>

\* summarize_paper keeping one summary per paper: the paper's earlier rows
\* are deleted before the INSERT
summarize_insert_Replace(w) ==
    /\ pc[w] = "summarize_insert"
    /\ summaries' = Append(SelectSeq(summaries,
                                     LAMBDA r : r.paper_id # local[w].paper_id),
                           [paper_id |-> local[w].paper_id,
                            summary |-> local[w].result])
    /\ resp' = [op |-> "summarize", status |-> 200,
                req |-> [paper_id |-> local[w].paper_id],
                body |-> [summary |-> local[w].result]]
    /\ pc' = [pc EXCEPT ![w] = "idle"]
    /\ local' = [local EXCEPT ![w] = NoLocal]
    /\ UNCHANGED <<papers, gaps, uploads, api_key, llm_calls, doc, extracted>>

summarize_insert(w) ==
    /\ pc[w] = "summarize_insert"
    /\ summaries' = Append(summaries, [paper_id |-> local[w].paper_id,
                                       summary |-> local[w].result])
    /\ resp' = [op |-> "summarize", status |-> 200,
                req |-> [paper_id |-> local[w].paper_id],
                body |-> [summary |-> local[w].result]]
    /\ pc' = [pc EXCEPT ![w] = "idle"]
    /\ local' = [local EXCEPT ![w] = NoLocal]
    /\ UNCHANGED <<papers, gaps, uploads, api_key, llm_calls, doc, extracted>>

gap_select(w, paper_id) ==
    /\ FreeThread(w)
    /\ LET row == SelectContent(paper_id)
       IN IF row = {}
          THEN /\ resp' = NotFound("gap_analysis", paper_id)
               /\ UNCHANGED <<pc, local>>
          ELSE /\ Writes < MaxWrites
               /\ pc' = [pc EXCEPT ![w] = "gap_llm"]
               /\ local' = [local EXCEPT ![w] =
                      [paper_id |-> paper_id, content |-> CHOOSE c \in row : TRUE,
                       result |-> ""]]
               /\ UNCHANGED resp
    /\ UNCHANGED <<papers, summaries, gaps, uploads, api_key, llm_calls, doc,
                   extracted>>

gap_llm(w, service) ==
    /\ pc[w] = "gap_llm"
    /\ LET r == llm_research_gap_analysis(local[w].content, service)
       IN /\ llm_calls' = IF r.called THEN llm_calls + 1 ELSE llm_calls
          /\ IF r.raised
             THEN /\ resp' = ServerError("gap_analysis", local[w].paper_id)
                  /\ pc' = [pc EXCEPT ![w] = "idle"]
                  /\ local' = [local EXCEPT ![w] = NoLocal]
             ELSE /\ pc' = [pc EXCEPT ![w] = "gap_insert"]
                  /\ local' = [local EXCEPT ![w].result = r.value]
                  /\ UNCHANGED resp
    /\ UNCHANGED <<papers, summaries, gaps, uploads, api_key, doc, extracted>>

gap_insert(w) ==
    /\ pc[w] = "gap_insert"
    /\ gaps' = Append(gaps, [paper_id |-> local[w].paper_id,
                             gaps |-> local[w].result])
    /\ resp' = [op |-> "gap_analysis", status |-> 200,
                req |-> [paper_id |-> local[w].paper_id],
                body |-> [gaps |-> local[w].result]]
    /\ pc' = [pc EXCEPT ![w] = "idle"]
    /\ local' = [local EXCEPT ![w] = NoLocal]
    /\ UNCHANGED <<papers, summaries, uploads, api_key, llm_calls, doc, extracted>>

(***************************************************************************)
(* GET /search                                                             *)
(***************************************************************************)
\* SQLite's lower(): NULL stays NULL
SqlLower(x) == IF x = None THEN None ELSE Lower(x)

\* SQLite's LIKE on non-NULL text: % matches any run of characters, _ any
\* one character, letters match without regard to case
RECURSIVE LikeMatch(_, _)
LikeMatch(text, pattern) ==
    IF pattern = <<>> THEN text = <<>>
    ELSE IF Head(pattern) = "%"
    THEN \E k \in 0..Len(text) :
             LikeMatch(SubSeq(text, k + 1, Len(text)), Tail(pattern))
    ELSE IF text = <<>> THEN FALSE
    ELSE IF Head(pattern) = "_" THEN LikeMatch(Tail(text), Tail(pattern))
    ELSE /\ LowerChar(Head(text)) = LowerChar(Head(pattern))
         /\ LikeMatch(Tail(text), Tail(pattern))

\* x LIKE pattern as a WHERE condition: NULL LIKE ... is NULL, not true
SqlLike(x, pattern) == x # None /\ LikeMatch(x, pattern)

\* the WHERE clause of search_papers for one row
SearchWhere(row, keyword) ==
    LET pattern == <<"%">> \o keyword \o <<"%">>
    IN \/ SqlLike(SqlLower(row.title), pattern)
       \/ SqlLike(SqlLower(row.authors), pattern)
       \/ SqlLike(SqlLower(row.abstract), pattern)
       \/ SqlLike(SqlLower(row.content), pattern)

RECURSIVE SelectWhere(_, _)
SelectWhere(rows, keyword) ==
    IF rows = <<>> THEN <<>>
    ELSE LET rest == SelectWhere(Tail(rows), keyword)
             row == Head(rows)
         IN IF SearchWhere(row, keyword)
            THEN <<[paper_id |-> row.id, title |-> row.title,
                    authors |-> row.authors, abstract |-> row.abstract]>> \o rest
            ELSE rest

search_papers(arg) ==
    /\ LET keyword == Lower(arg)
       IN resp' = [op |-> "search", status |-> 200, req |-> [keyword |-> arg],
                   body |-> IF ~Truthy(keyword) THEN <<>>
                            ELSE SelectWhere(papers, keyword)]
    /\ UNCHANGED <<papers, summaries, gaps, uploads, api_key, pc, local,
                   llm_calls, doc, extracted>>

(***************************************************************************)
(* The service: any interleaving of the handlers' steps.                   *)
(***************************************************************************)
Next ==
    \/ \E req \in UploadRequests : upload_paper(req)
    \/ \E w \in Workers, paper_id \in PaperIds : summarize_select(w, paper_id)
    \/ \E w \in Workers, service \in ServiceOutcomes : summarize_llm(w, service)
    \/ \E w \in Workers : summarize_insert(w)
    \/ \E w \in Workers, paper_id \in PaperIds : gap_select(w, paper_id)
    \/ \E w \in Workers, service \in ServiceOutcomes : gap_llm(w, service)
    \/ \E w \in Workers : gap_insert(w)
    \/ \E arg \in Keywords : search_papers(arg)

Spec == Init /\ [][Next]_vars

(***************************************************************************)
(* extract_content_from_pdf on its own, over every text that is an         *)
(* optional prefix, an optional "abstract" heading and up to MaxTextLen    *)
(* further characters.                                                     *)
(***************************************************************************)
RECURSIVE TextsUpTo(_, _)
TextsUpTo(chars, n) ==
    IF n = 0 THEN {<<>>}
    ELSE LET shorter == TextsUpTo(chars, n - 1)
         IN shorter \cup {Append(t, c) : t \in shorter, c \in chars}

AbstractHeading == <<"A","b","s","t","r","a","c","t">>

ExtractTexts ==
    LET rest == TextsUpTo({"x", " ", NL}, MaxTextLen)
        head == {pre \o h : pre \in {<<>>, <<"x">>},
                            h \in {AbstractHeading, AbstractWord}} \cup {<<>>}
    IN {h \o r : h \in head, r \in rest}

ExtractDocs ==
    {[valid |-> TRUE, metadata |-> EmptyDict, pages |-> <<t>>] : t \in ExtractTexts}

ExtractInit ==
    /\ init_db
    /\ uploads = <<>>
    /\ api_key = None
    /\ pc = [w \in Workers |-> "idle"]
    /\ local = [w \in Workers |-> NoLocal]
    /\ resp = NoResp
    /\ llm_calls = 0
    /\ doc \in ExtractDocs
    /\ extracted = NotExtracted

extract_step ==
    /\ extracted = NotExtracted
    /\ extracted' = extract_content_from_pdf(doc)
    /\ UNCHANGED <<papers, summaries, gaps, uploads, api_key, pc, local, resp,
                   llm_calls, doc>>

ExtractNext == extract_step

ExtractSpec == ExtractInit /\ [][ExtractNext]_vars

(***************************************************************************)
(* Properties.                                                             *)
(***************************************************************************)
PaperIdSet == {papers[i].id : i \in 1..Len(papers)}

IsPrefix(s, t) == Len(s) <= Len(t) /\ SubSeq(t, 1, Len(s)) = s

\* text contains keyword as a literal substring, letters compared without case
ContainsText(text, keyword) ==
    /\ text # None
    /\ \E k \in 0..(Len(text) - Len(keyword)) :
           Lower(SubSeq(text, k + 1, k + Len(keyword))) = Lower(keyword)

AnalyzerStrings ==
    {NotConfigured} \cup {o.value : o \in {x \in ServiceOutcomes : ~x.raised}}
    \cup {"An error occurred: " \o o.value : o \in {x \in ServiceOutcomes : x.raised}}

\* C1: a POST /upload whose file part is missing, whose filename is empty or
\* whose filename does not end in ".pdf" is answered 400 with an error body,
\* and the step that answers it leaves papers, summaries and gaps as they were.
C1_UploadRejected ==
    /\ [](resp.op = "upload"
          /\ (\/ ~resp.req.has_file
              \/ resp.req.filename = <<>>
              \/ Len(resp.req.filename) < 4
              \/ SubSeq(resp.req.filename, Len(resp.req.filename) - 3,
                        Len(resp.req.filename)) # <<".","p","d","f">>)
          => resp.status = 400 /\ DOMAIN resp.body = {"error"})
    /\ [][(resp' # resp /\ resp'.op = "upload" /\ resp'.status = 400)
          => UNCHANGED <<papers, summaries, gaps>>]_vars

\* a non-PDF filename was rejected while the store held a paper and a summary
C1_Witness ==
    /\ resp.op = "upload"
    /\ resp.status = 400
    /\ resp.req.filename = PdfNameTxt
    /\ papers # <<>>
    /\ summaries # <<>>

\* C2: a summarize or gap_analysis request for a paper_id that is no row of
\* papers is answered 404 "Paper not found", inserts nothing and makes no call
\* to the completion service; no request thread goes on with such an id.
C2_NotFound ==
    [][/\ \A w \in Workers :
              (pc[w] = "idle" /\ pc'[w] # "idle")
              => local'[w].paper_id \in PaperIdSet
       /\ (/\ resp' # resp
           /\ resp'.op \in {"summarize", "gap_analysis"}
           /\ resp'.req.paper_id \notin PaperIdSet)
          => /\ resp'.status = 404
             /\ resp'.body = [error |-> "Paper not found"]
             /\ UNCHANGED <<papers, summaries, gaps, llm_calls>>]_vars

\* a gap_analysis for an unknown id was answered 404 while another paper exists
C2_Witness ==
    /\ resp.op = "gap_analysis"
    /\ resp.status = 404
    /\ resp.req.paper_id \notin PaperIdSet
    /\ papers # <<>>
    /\ api_key # None

\* C3: every call of llm_summarize and llm_research_gap_analysis returns a
\* string (the sentinel, the service's text or the error-describing string)
\* and never raises, whatever the service does; with no API key the string is
\* the sentinel and the service is not called.
C3_AnalyzerTotal ==
    [][\A w \in Workers :
          /\ (pc[w] = "summarize_llm" /\ pc'[w] # pc[w])
             => /\ pc'[w] = "summarize_insert"
                /\ local'[w].result \in AnalyzerStrings
                /\ ~Truthy(api_key) => /\ local'[w].result = NotConfigured
                                       /\ llm_calls' = llm_calls
          /\ (pc[w] = "gap_llm" /\ pc'[w] # pc[w])
             => /\ pc'[w] = "gap_insert"
                /\ local'[w].result \in AnalyzerStrings
                /\ ~Truthy(api_key) => /\ local'[w].result = NotConfigured
                                       /\ llm_calls' = llm_calls]_vars

\* llm_summarize was given the empty string, the service raised, and the
\* function returned the error-describing string
C3_Witness ==
    \E w \in Workers :
        /\ pc[w] = "summarize_insert"
        /\ local[w].content = <<>>
        /\ local[w].result = "An error occurred: timeout"

\* C4: GET /search returns the empty array for the empty keyword, and
\* otherwise only documents whose title, authors, abstract or full text
\* contains the keyword as a literal case-insensitive substring.
C4_SearchOnlyMatching ==
    resp.op = "search"
    => /\ resp.req.keyword = <<>> => resp.body = <<>>
       /\ \A i \in 1..Len(resp.body) :
              \E j \in 1..Len(papers) :
                  /\ papers[j].id = resp.body[i].paper_id
                  /\ \/ ContainsText(papers[j].title, resp.req.keyword)
                     \/ ContainsText(papers[j].authors, resp.req.keyword)
                     \/ ContainsText(papers[j].abstract, resp.req.keyword)
                     \/ ContainsText(papers[j].content, resp.req.keyword)

\* C5: for full text "Abstract" + blank line + P + blank line + rest, where P
\* holds no blank line, the extracted abstract is P trimmed.
C5_AbstractParagraph ==
    extracted # NotExtracted
    => \A n \in 0..Len(extracted.content) :
           LET content == extracted.content
               P == SubSeq(content, 11, 10 + n)
           IN (/\ Len(content) >= 12 + n
               /\ SubSeq(content, 1, 10) = AbstractHeading \o BlankLine
               /\ SubSeq(content, 11 + n, 12 + n) = BlankLine
               /\ Find(P, BlankLine, 0) = -1)
              => extracted.abstract = Strip(P)

\* C6: the title and authors an upload stores and returns are the metadata
\* values when present and non-empty, and the placeholders when the metadata
\* field is absent, empty or null.
C6_TitleAuthors ==
    (resp.op = "upload" /\ resp.status = 200)
    => LET m == resp.req.pdf.metadata
           title == IF "title" \in DOMAIN m /\ Truthy(m["title"])
                    THEN m["title"] ELSE UnknownTitle
           authors == IF "author" \in DOMAIN m /\ Truthy(m["author"])
                      THEN m["author"] ELSE UnknownAuthors
       IN /\ resp.body.title = title
          /\ resp.body.authors = authors
          /\ \E i \in 1..Len(papers) :
                 /\ papers[i].id = resp.body.paper_id
                 /\ papers[i].title = title
                 /\ papers[i].authors = authors

\* C7: a summarize or gap_analysis request for an existing paper_id is
\* answered 200 whatever the completion service does; the payload is the
\* sentinel when no key is configured and the error-describing string when
\* the call fails.
C7_AlwaysOk ==
    [][(/\ resp' # resp
        /\ resp'.op \in {"summarize", "gap_analysis"}
        /\ resp'.req.paper_id \in PaperIdSet)
       => /\ resp'.status = 200
          /\ LET payload == IF resp'.op = "summarize" THEN resp'.body.summary
                            ELSE resp'.body.gaps
             IN /\ payload \in AnalyzerStrings
                /\ ~Truthy(api_key) => payload = NotConfigured]_vars

\* a gap_analysis whose completion call failed was answered 200 with the
\* error-describing string
C7_Witness ==
    /\ resp.op = "gap_analysis"
    /\ resp.status = 200
    /\ resp.body.gaps = "An error occurred: timeout"

\* C8: identifiers in papers are pairwise distinct; a row of papers is never
\* changed or removed; the paper_id a successful upload returns is the
\* identifier of the row that upload inserted.
C8_PaperIds ==
    /\ [](\A i, j \in 1..Len(papers) : papers[i].id = papers[j].id => i = j)
    /\ [][/\ IsPrefix(papers, papers')
          /\ (resp' # resp /\ resp'.op = "upload" /\ resp'.status = 200)
             => /\ Len(papers') = Len(papers) + 1
                /\ papers'[Len(papers')] =
                       [id |-> resp'.body.paper_id,
                        title |-> resp'.body.title,
                        authors |-> resp'.body.authors,
                        abstract |-> resp'.body.abstract,
                        content |-> Join(resp'.req.pdf.pages, <<NL>>),
                        filename |-> resp'.req.filename]]_vars

\* a second paper was uploaded while a summarize request was in flight
C8_Witness ==
    /\ Len(papers) = 2
    /\ resp.op = "upload"
    /\ resp.status = 200
    /\ resp.body.paper_id = 2
    /\ \E w \in Workers : pc[w] = "summarize_insert"

\* C10: summaries changes only by a 200 summarize response appending the one
\* row (id, S) of that response, with papers and gaps unchanged, and every 200
\* summarize response appends it; the same for gaps and gap_analysis; both
\* tables only grow, and every row references an identifier in papers.
C10_AppendOnly ==
    /\ [](/\ \A i \in 1..Len(summaries) : summaries[i].paper_id \in PaperIdSet
          /\ \A i \in 1..Len(gaps) : gaps[i].paper_id \in PaperIdSet)
    /\ [][/\ IsPrefix(summaries, summaries')
          /\ IsPrefix(gaps, gaps')
          /\ (\/ summaries' # summaries
              \/ (resp' # resp /\ resp'.op = "summarize" /\ resp'.status = 200))
             => /\ resp'.op = "summarize"
                /\ resp'.status = 200
                /\ summaries' = Append(summaries,
                                       [paper_id |-> resp'.req.paper_id,
                                        summary |-> resp'.body.summary])
                /\ UNCHANGED <<papers, gaps>>
          /\ (\/ gaps' # gaps
              \/ (resp' # resp /\ resp'.op = "gap_analysis" /\ resp'.status = 200))
             => /\ resp'.op = "gap_analysis"
                /\ resp'.status = 200
                /\ gaps' = Append(gaps, [paper_id |-> resp'.req.paper_id,
                                         gaps |-> resp'.body.gaps])
                /\ UNCHANGED <<papers, summaries>>]_vars

\* two summarize requests for the same paper each left their own row
C10_Witness ==
    /\ Len(summaries) = 2
    /\ summaries[1].paper_id = summaries[2].paper_id
    /\ summaries[1].summary # summaries[2].summary
    /\ resp.op = "summarize"
    /\ resp.status = 200

\* C9: when "abstract" occurs and no blank line follows it, the extracted
\* abstract is the trimmed text from just after the occurrence to the end of
\* the full text.
C9_ClampToEnd ==
    extracted # NotExtracted
    => LET content == extracted.content
           abs_start == Find(Lower(content), AbstractWord, 0)
       IN (abs_start # -1 /\ Find(content, BlankLine, abs_start + 8) = -1)
          => extracted.abstract
                 = Strip(SubSeq(content, abs_start + 9, Len(content)))

====
